---- MODULE Spec2Model ----
(***************************************************************************)
(* Model of workload/scripts/version_determinator.py: the line-oriented    *)
(* Terraform resource parser, the six change predicates, the version       *)
(* policy and the version arithmetic of main().                            *)
(*                                                                         *)
(* Text is modelled as sequences of one-character strings, so that         *)
(* str.startswith, str.endswith, str.strip, str.rstrip(','), the tag       *)
(* regular expression and the f-string formatting are computed as the      *)
(* code computes them.  A line of a .tf file is modelled by the class the  *)
(* parser's tests put it in, together with its raw field/value text.       *)
(***************************************************************************)
EXTENDS Integers, Sequences, FiniteSets, TLC

VARIABLES
    \* ---- environment of one run of main() ----
    argv,              \* sys.argv[1:]: sequence of path texts
    tagEnv,            \* what `git describe` prints; NoTag when it fails
    diffFails,         \* `git diff` raises CalledProcessError
    tagTree,           \* path -> file at the latest tag
    headTree,          \* path -> file at HEAD
    workTree,          \* path -> file in the working directory
    walkOrder,         \* order in which os.walk yields the files
    \* ---- program state of main() / determine_version_increment() ----
    pc,
    config_directory,
    latest_tag,
    changed_files,
    changes,           \* the dict {'major','minor','patch'} of line 309
    preds,             \* what each of the six predicates returned
    increment_type,
    version,           \* (major, minor, patch) of main()
    new_version,
    output,            \* lines appended to GITHUB_OUTPUT and GITHUB_ENV
    exit_code,
    \* ---- state of one call of parse_resource() ----
    content,
    idx,               \* number of lines already consumed by the for loop
    resources,
    current_resource

envVars  == <<argv, tagEnv, diffFails, tagTree, headTree, workTree, walkOrder>>
mainVars == <<pc, config_directory, latest_tag, changed_files, changes, preds,
              increment_type, version, new_version, output, exit_code>>
parseVars == <<content, idx, resources, current_resource>>
vars == <<envVars, mainVars, parseVars>>

----------------------------------------------------------------------------
(* Text helpers                                                            *)

StartsWith(s, p) == Len(p) <= Len(s) /\ SubSeq(s, 1, Len(p)) = p
EndsWith(s, p) == Len(p) <= Len(s) /\ SubSeq(s, Len(s) - Len(p) + 1, Len(s)) = p

RECURSIVE LStrip(_)
LStrip(s) == IF s # <<>> /\ Head(s) = " " THEN LStrip(Tail(s)) ELSE s

RECURSIVE RStrip(_)
RStrip(s) == IF s # <<>> /\ s[Len(s)] = " " THEN RStrip(SubSeq(s, 1, Len(s) - 1)) ELSE s

\* str.strip
Strip(s) == RStrip(LStrip(s))

\* str.rstrip(','): removes every trailing comma
RECURSIVE RStripComma(_)
RStripComma(s) ==
    IF s # <<>> /\ s[Len(s)] = "," THEN RStripComma(SubSeq(s, 1, Len(s) - 1)) ELSE s

EmptyMap == [x \in {} |-> x]

\* d[k] = v on a dict
Put(d, k, v) == [x \in (DOMAIN d) \cup {k} |-> IF x = k THEN v ELSE d[x]]

\* d.update(e)
Update(d, e) == [x \in (DOMAIN d) \cup (DOMAIN e) |-> IF x \in DOMAIN e THEN e[x] ELSE d[x]]

----------------------------------------------------------------------------
(* Lines of a configuration file.                                          *)
(*   kind "decl"   : the text  resource "<a>" "<b>" {                      *)
(*   kind "assign" : the text  <a>=<b>  (a holds no '=')                   *)
(*   kind "close"  : the text  }                                           *)
(*   kind "other"  : a text with no '=' that is none of the above          *)
(* ind: the text is preceded by white space.                               *)

Line(kind, ind, a, b) == [kind |-> kind, ind |-> ind, a |-> a, b |-> b]

Decl(t, n)   == Line("decl", FALSE, t, n)
Assign(f, v) == Line("assign", TRUE, f, v)
Close        == Line("close", FALSE, <<>>, <<>>)

\* re.match(r'resource\s+"(\w+)"\s+"(\w+)"\s*{', line): anchored at column 0
ResourceMatch(line) == line.kind = "decl" /\ ~line.ind

\* '=' in line
HasEquals(line) == line.kind = "assign"

\* line.strip() == '}'
IsClosingBrace(line) == line.kind = "close"

NoResource == <<>>

\* parse_resource: the body of the for loop, on the pair (resources, cursor)
ParseStep_CloseOnlyUnindented(st, line) ==
    IF ResourceMatch(line)
    THEN [resources |-> Put(st.resources, <<line.a, line.b>>, EmptyMap),
          current_resource |-> <<line.a, line.b>>]
    ELSE IF st.current_resource # NoResource /\ HasEquals(line)
    THEN [resources |-> Put(st.resources, st.current_resource,
                            Put(st.resources[st.current_resource],
                                Strip(line.a), RStripComma(Strip(line.b)))),
          current_resource |-> st.current_resource]
    ELSE IF IsClosingBrace(line) /\ ~line.ind
    THEN [resources |-> st.resources, current_resource |-> NoResource]
    ELSE st

ParseStep(st, line) ==
    IF ResourceMatch(line)
    THEN [resources |-> Put(st.resources, <<line.a, line.b>>, EmptyMap),
          current_resource |-> <<line.a, line.b>>]
    ELSE IF st.current_resource # NoResource /\ HasEquals(line)
    THEN [resources |-> Put(st.resources, st.current_resource,
                            Put(st.resources[st.current_resource],
                                Strip(line.a), RStripComma(Strip(line.b)))),
          current_resource |-> st.current_resource]
    ELSE IF IsClosingBrace(line)
    THEN [resources |-> st.resources, current_resource |-> NoResource]
    ELSE st

RECURSIVE ParseFrom(_, _, _)
ParseFrom(st, lines, i) ==
    IF i > Len(lines) THEN st.resources
    ELSE ParseFrom(ParseStep(st, lines[i]), lines, i + 1)

parse_resource(text) ==
    ParseFrom([resources |-> EmptyMap, current_resource |-> NoResource], text, 1)

----------------------------------------------------------------------------
(* Values the variables of the other components hold while one component   *)
(* is exercised on its own.                                                *)

NoTag == <<>>
NoFile == [st |-> "absent", lines |-> <<>>]
NoChanges == [major |-> FALSE, minor |-> FALSE, patch |-> FALSE]
NoPreds == [nrt |-> FALSE, nri |-> FALSE, far |-> FALSE,
            rrc |-> FALSE, fc |-> FALSE, fvc |-> FALSE]

MainIdle ==
    /\ config_directory = <<>>
    /\ latest_tag = NoTag
    /\ changed_files = <<>>
    /\ changes = NoChanges
    /\ preds = NoPreds
    /\ increment_type = "none"
    /\ version = <<0, 0, 0>>
    /\ new_version = <<>>
    /\ output = <<>>
    /\ exit_code = -1

ParseIdle ==
    /\ content = <<>>
    /\ idx = 0
    /\ resources = EmptyMap
    /\ current_resource = NoResource

----------------------------------------------------------------------------
(* parse_resource, one line per step                                       *)

MaxLines == 4

RawAmi  == <<"a", "m", "i", " ">>
RawTags == <<" ", "t", "a", "g", "s">>
Raw1    == <<" ", "1">>
Raw2c   == <<" ", "2", ",", ",">>

LineAlphabet ==
    { Line("decl", FALSE, "aws_instance", "web"),
      Line("decl", FALSE, "aws_instance", "web2"),
      Line("decl", TRUE, "aws_s3_bucket", "logs"),
      Line("assign", TRUE, RawAmi, Raw1),
      Line("assign", TRUE, RawAmi, Raw2c),
      Line("assign", FALSE, RawTags, Raw1),
      Line("close", FALSE, <<>>, <<>>),
      Line("close", TRUE, <<>>, <<>>),
      Line("other", TRUE, <<>>, <<>>) }

SeqsUpTo(S, n) == UNION {[1..k -> S] : k \in 0..n}

InitParse ==
    /\ content \in SeqsUpTo(LineAlphabet, MaxLines)
    /\ idx = 0
    /\ resources = EmptyMap
    /\ current_resource = NoResource
    /\ pc = "parse"
    /\ argv = <<>> /\ tagEnv = NoTag /\ diffFails = FALSE
    /\ tagTree = EmptyMap /\ headTree = EmptyMap /\ workTree = EmptyMap
    /\ walkOrder = <<>>
    /\ MainIdle

\* one iteration of `for line in content.split('\n')`
ParseLine ==
    /\ pc = "parse"
    /\ idx < Len(content)
    /\ LET st == ParseStep([resources |-> resources,
                            current_resource |-> current_resource],
                           content[idx + 1])
       IN /\ resources' = st.resources
          /\ current_resource' = st.current_resource
    /\ idx' = idx + 1
    /\ UNCHANGED <<content, envVars, mainVars>>

\* `return resources`
ParseReturn ==
    /\ pc = "parse"
    /\ idx = Len(content)
    /\ pc' = "parsed"
    /\ UNCHANGED <<envVars, config_directory, latest_tag, changed_files, changes,
                   preds, increment_type, version, new_version, output, exit_code,
                   parseVars>>

NextParse == ParseLine \/ ParseReturn

SpecParse == InitParse /\ [][NextParse]_vars

\* keys of the declaration lines among the first n lines
DeclaredKeys(text, n) ==
    { <<text[j].a, text[j].b>> : j \in {k \in 1..n : ResourceMatch(text[k])} }

\* the key whose declaration is the most recent declaration line before line
\* i, provided no closing-brace line lies between them (a set with at most
\* one element)
OpenKeys(text, i) ==
    { <<text[j].a, text[j].b>> :
        j \in { k \in 1..(i - 1) :
                  /\ ResourceMatch(text[k])
                  /\ \A m \in (k + 1)..(i - 1) :
                        ~ResourceMatch(text[m]) /\ ~IsClosingBrace(text[m]) } }

C10_KeysDeclared == DOMAIN resources \subseteq DeclaredKeys(content, idx)

C10_LineStep ==
    (pc = "parse" /\ idx' = idx + 1) =>
        LET l == content[idx + 1]
            open == OpenKeys(content, idx + 1)
        IN  IF ResourceMatch(l)
            THEN DOMAIN resources' = (DOMAIN resources) \cup {<<l.a, l.b>>}
            ELSE IF HasEquals(l) /\ open # {}
            THEN \E K \in open :
                    /\ K \in DOMAIN resources
                    /\ resources' =
                         Put(resources, K,
                             Put(resources[K], Strip(l.a), RStripComma(Strip(l.b))))
            ELSE resources' = resources

\* C10: parse_resource is a two-state machine {outside, inside(key)}: every
\* key of the model comes from a declaration line of the input, and a
\* non-declaration line holding '=' is recorded as a field of key K exactly
\* when K's declaration is the most recent declaration line before it and no
\* line that is '}' after trimming lies between; otherwise the line adds
\* nothing.
C10_TwoStateParser == []C10_KeysDeclared /\ [][C10_LineStep]_vars

\* a finished parse in which one '=' line was recorded inside a block and a
\* later '=' line, after an indented closing brace, was dropped
C10_Witness ==
    /\ pc = "parsed"
    /\ \E i, j \in 1..Len(content) :
          /\ i < j
          /\ HasEquals(content[i]) /\ OpenKeys(content, i) # {}
          /\ HasEquals(content[j]) /\ OpenKeys(content, j) = {}
          /\ Strip(content[i].a) # Strip(content[j].a)
          /\ \E k \in (i + 1)..(j - 1) : IsClosingBrace(content[k]) /\ content[k].ind
          /\ \A K \in DOMAIN resources : DOMAIN resources[K] = {Strip(content[i].a)}

----------------------------------------------------------------------------
(* Version policy: determine_version_increment, lines 309-339              *)

\* `if <predicate>: changes[cls] = True`
Mark(ch, cls, val) == IF val THEN [ch EXCEPT ![cls] = TRUE] ELSE ch

\* the six `if` statements of lines 315-326, in order
MarkAll(p) ==
    Mark(Mark(Mark(Mark(Mark(Mark(NoChanges,
        "major", p.nrt), "minor", p.nri), "minor", p.far),
        "minor", p.rrc), "patch", p.fc), "patch", p.fvc)

Decide_MinorFirst(ch) ==
    IF ch.minor THEN "minor"
    ELSE IF ch.major THEN "major"
    ELSE IF ch.patch THEN "patch"
    ELSE "patch"

\* the if/elif chain of lines 328-339
Decide(ch) ==
    IF ch.major THEN "major"
    ELSE IF ch.minor THEN "minor"
    ELSE IF ch.patch THEN "patch"
    ELSE "patch"

----------------------------------------------------------------------------
(* Version arithmetic: main, lines 415-438                                 *)

Digits == <<"0", "1", "2", "3", "4", "5", "6", "7", "8", "9">>
IsDigit(c) == \E d \in 1..Len(Digits) : Digits[d] = c
DigitValue(c) == (CHOOSE d \in 1..Len(Digits) : Digits[d] = c) - 1

\* str(n) for n >= 0
RECURSIVE IntToStr(_)
IntToStr(n) ==
    IF n < Len(Digits) THEN <<Digits[n + 1]>>
    ELSE IntToStr(n \div Len(Digits)) \o <<Digits[(n % Len(Digits)) + 1]>>

\* int(s) for a string of digits
RECURSIVE StrToInt(_)
StrToInt(s) ==
    IF s = <<>> THEN 0
    ELSE StrToInt(SubSeq(s, 1, Len(s) - 1)) * Len(Digits) + DigitValue(s[Len(s)])

\* length of the run of digits of s that starts at position i (\d+ is greedy)
RECURSIVE DigitRun(_, _)
DigitRun(s, i) ==
    IF i <= Len(s) /\ IsDigit(s[i]) THEN 1 + DigitRun(s, i + 1) ELSE 0

\* re.match(r'v(\d+)\.(\d+)\.(\d+)', tag): the three groups as integers, or
\* <<>> when the tag has no such prefix
VersionMatch(tag) ==
    LET n1 == DigitRun(tag, 2)
        n2 == DigitRun(tag, 3 + n1)
        n3 == DigitRun(tag, 4 + n1 + n2)
    IN  IF /\ Len(tag) >= 1 /\ tag[1] = "v"
           /\ n1 >= 1
           /\ Len(tag) >= 2 + n1 /\ tag[2 + n1] = "."
           /\ n2 >= 1
           /\ Len(tag) >= 3 + n1 + n2 /\ tag[3 + n1 + n2] = "."
           /\ n3 >= 1
        THEN << StrToInt(SubSeq(tag, 2, 1 + n1)),
                StrToInt(SubSeq(tag, 3 + n1, 2 + n1 + n2)),
                StrToInt(SubSeq(tag, 4 + n1 + n2, 3 + n1 + n2 + n3)) >>
        ELSE <<>>

\* lines 416-426: the current version
CurrentVersion(tag) ==
    IF tag # NoTag
    THEN IF VersionMatch(tag) # <<>> THEN VersionMatch(tag) ELSE <<0, 0, 0>>
    ELSE <<0, 0, 0>>

Bump_MinorKeepsPatch(v, inc) ==
    IF inc = "major" THEN <<v[1] + 1, 0, 0>>
    ELSE IF inc = "minor" THEN <<v[1], v[2] + 1, v[3]>>
    ELSE <<v[1], v[2], v[3] + 1>>

\* lines 428-436
Bump(v, inc) ==
    IF inc = "major" THEN <<v[1] + 1, 0, 0>>
    ELSE IF inc = "minor" THEN <<v[1], v[2] + 1, 0>>
    ELSE <<v[1], v[2], v[3] + 1>>

\* f"v{major}.{minor}.{patch}"
FormatVersion(v) ==
    <<"v">> \o IntToStr(v[1]) \o <<".">> \o IntToStr(v[2]) \o <<".">> \o IntToStr(v[3])

\* get_latest_tag
get_latest_tag == tagEnv

\* main, lines 415-426
ReadVersion ==
    /\ pc = "version"
    /\ latest_tag' = get_latest_tag
    /\ version' = CurrentVersion(get_latest_tag)
    /\ pc' = "apply"
    /\ UNCHANGED <<envVars, parseVars, config_directory, changed_files, changes,
                   preds, increment_type, new_version, output, exit_code>>

\* main, lines 428-438
ApplyIncrement ==
    /\ pc = "apply"
    /\ version' = Bump(version, increment_type)
    /\ new_version' = FormatVersion(Bump(version, increment_type))
    /\ pc' = "publish"
    /\ UNCHANGED <<envVars, parseVars, config_directory, latest_tag, changed_files,
                   changes, preds, increment_type, output, exit_code>>

\* main, lines 441-447: set_output, set_env, normal return
Publish ==
    /\ pc = "publish"
    /\ output' = output \o
          << [sink |-> "GITHUB_OUTPUT", name |-> "version", value |-> new_version],
             [sink |-> "GITHUB_ENV", name |-> "NEW_VERSION", value |-> new_version] >>
    /\ exit_code' = 0
    /\ pc' = "exit"
    /\ UNCHANGED <<envVars, parseVars, config_directory, latest_tag, changed_files,
                   changes, preds, increment_type, version, new_version>>

----------------------------------------------------------------------------
(* The policy on its own: every combination of the six predicate results   *)

Increments == {"major", "minor", "patch"}

InitPolicy ==
    /\ pc = "policy"
    /\ preds \in [{"nrt", "nri", "far", "rrc", "fc", "fvc"} -> BOOLEAN]
    /\ changes = NoChanges
    /\ config_directory = <<>> /\ latest_tag = NoTag /\ changed_files = <<>>
    /\ increment_type = "none" /\ version = <<0, 0, 0>> /\ new_version = <<>>
    /\ output = <<>> /\ exit_code = -1
    /\ argv = <<>> /\ tagEnv = NoTag /\ diffFails = FALSE
    /\ tagTree = EmptyMap /\ headTree = EmptyMap /\ workTree = EmptyMap
    /\ walkOrder = <<>>
    /\ ParseIdle

\* lines 309-326 with the predicate results given
ApplyPolicy ==
    /\ pc = "policy"
    /\ changes' = MarkAll(preds)
    /\ pc' = "decide"
    /\ UNCHANGED <<envVars, parseVars, config_directory, latest_tag, changed_files,
                   preds, increment_type, version, new_version, output, exit_code>>

\* lines 328-339
DecideIncrement ==
    /\ pc = "decide"
    /\ increment_type' = Decide(changes)
    /\ pc' = "version"
    /\ UNCHANGED <<envVars, parseVars, config_directory, latest_tag, changed_files,
                   changes, preds, version, new_version, output, exit_code>>

NextPolicy == ApplyPolicy \/ DecideIncrement

SpecPolicy == InitPolicy /\ [][NextPolicy]_vars

\* C3: for every combination of the six predicate results the increment is
\* 'major' if NewResourceType holds, otherwise 'minor' if NewResourceIteration,
\* FileAddedOrRenamed or ResourceRemovedOrCommented holds, otherwise 'patch'
\* (also when all six are false); exactly one class is returned.
C3_PolicyPrecedence ==
    pc = "version" =>
        /\ increment_type \in Increments
        /\ (preds.nrt => increment_type = "major")
        /\ (~preds.nrt /\ (preds.nri \/ preds.far \/ preds.rrc)
               => increment_type = "minor")
        /\ (~preds.nrt /\ ~preds.nri /\ ~preds.far /\ ~preds.rrc
               => increment_type = "patch")

\* all three classes were marked and 'major' was returned
C3_Witness ==
    /\ pc = "version"
    /\ preds.nrt /\ preds.far /\ preds.fvc
    /\ changes = [major |-> TRUE, minor |-> TRUE, patch |-> TRUE]
    /\ increment_type = "major"

----------------------------------------------------------------------------
(* The arithmetic on its own: every prior tag, every increment class       *)

MaxVer == 10

Triples == (0..MaxVer) \X (0..MaxVer) \X (0..MaxVer)

\* a tag text together with the triple it stands for
TagCases ==
    { [text |-> FormatVersion(t), triple |-> t] : t \in Triples }
    \cup
    \* leading zero in the minor component
    { [text |-> <<"v">> \o IntToStr(t[1]) \o <<".", "0">> \o IntToStr(t[2])
                  \o <<".">> \o IntToStr(t[3]),
       triple |-> t] : t \in Triples }
    \cup
    \* tags that start with v but do not have the v<major>.<minor>.<patch> form
    { [text |-> m, triple |-> <<0, 0, 0>>] :
        m \in { <<"v", "x">>, <<"v", "1", ".", "2">>, <<"v", "1", ".", ".", "3">>,
                <<"v", ".", "1", ".", "2">>, <<"v", "1", ".", "2", ".", "x">> } }

InitVersion ==
    /\ pc = "version"
    /\ tagEnv \in {c.text : c \in TagCases}
    /\ increment_type \in Increments
    /\ config_directory = <<>> /\ latest_tag = NoTag /\ changed_files = <<>>
    /\ changes = NoChanges /\ preds = NoPreds
    /\ version = <<0, 0, 0>> /\ new_version = <<>>
    /\ output = <<>> /\ exit_code = -1
    /\ argv = <<>> /\ diffFails = FALSE
    /\ tagTree = EmptyMap /\ headTree = EmptyMap /\ workTree = EmptyMap
    /\ walkOrder = <<>>
    /\ ParseIdle

NextVersion == ReadVersion \/ ApplyIncrement \/ Publish

SpecVersion == InitVersion /\ [][NextVersion]_vars

Expected(t, inc) ==
    CASE inc = "major" -> <<t[1] + 1, 0, 0>>
      [] inc = "minor" -> <<t[1], t[2] + 1, 0>>
      [] inc = "patch" -> <<t[1], t[2], t[3] + 1>>

LexGreater(a, b) ==
    \/ a[1] > b[1]
    \/ a[1] = b[1] /\ a[2] > b[2]
    \/ a[1] = b[1] /\ a[2] = b[2] /\ a[3] > b[3]

\* the values written under `name`
Published(name) == {output[i].value : i \in {j \in DOMAIN output : output[j].name = name}}

\* C8: for every prior triple and increment class the published version is
\* v(major+1).0.0, v(major).(minor+1).0 or v(major).(minor).(patch+1); a tag
\* that does not have the v<major>.<minor>.<patch> form counts as (0,0,0);
\* the published version is strictly greater than the prior triple.
C8_VersionArithmetic ==
    pc = "exit" =>
        \A c \in TagCases :
            tagEnv = c.text =>
                /\ Published("version") = {FormatVersion(Expected(c.triple, increment_type))}
                /\ Published("NEW_VERSION") = Published("version")
                /\ \A text \in Published("version") :
                      /\ VersionMatch(text) # <<>>
                      /\ LexGreater(VersionMatch(text), c.triple)

\* v9.10.3 with a minor increment was published as v9.11.0
C8_Witness ==
    /\ pc = "exit"
    /\ tagEnv = <<"v", "9", ".", "1", "0", ".", "3">>
    /\ increment_type = "minor"
    /\ Published("version") = {<<"v", "9", ".", "1", "1", ".", "0">>}

----------------------------------------------------------------------------
(* The repository and the working directory of one run.  The script runs   *)
(* from the top of the work tree, so the paths git prints, the paths       *)
(* os.walk joins and the argument name the same files.  A file is absent,  *)
(* text (its lines), or bytes that are not valid UTF-8.                    *)

ConfigDir == <<"d">>
OtherDir  == <<"x">>
DotTf     == <<".", "t", "f">>

PathA   == <<"d", "/", "a", ".", "t", "f">>
PathB   == <<"d", "/", "b", ".", "t", "f">>
PathMd  == <<"d", "/", "r", ".", "m", "d">>
PathSib == <<"d", "2", "/", "a", ".", "t", "f">>
Paths   == {PathA, PathB, PathMd, PathSib}

\* git prints paths in byte order ('/' sorts before '2')
PathOrder == <<PathA, PathB, PathMd, PathSib>>

File(lines) == [st |-> "text", lines |-> lines]
Undecodable == [st |-> "undecodable", lines |-> <<>>]

Web     == File(<< Decl("aws_instance", "web"), Assign(RawAmi, Raw1), Close >>)
WebTags == File(<< Decl("aws_instance", "web"), Assign(RawAmi, Raw1),
                   Assign(RawTags, Raw1), Close >>)
WebAlt  == File(<< Decl("aws_instance", "web"), Assign(RawAmi, Raw2c),
                   Assign(RawTags, Raw1), Close >>)
Web2    == File(<< Decl("aws_instance", "web2"), Assign(RawAmi, Raw1), Close >>)
Bucket  == File(<< Decl("aws_s3_bucket", "logs"), Close >>)
Empty   == File(<<>>)
Readme  == File(<< Line("other", FALSE, <<>>, <<>>) >>)

Tree(a, b, md, sib) ==
    [p \in Paths |-> IF p = PathA THEN a ELSE IF p = PathB THEN b
                     ELSE IF p = PathMd THEN md ELSE sib]

ContentsA == {NoFile, Web, WebTags, Empty, Undecodable}
ContentsB == {NoFile, Web2, Bucket, WebAlt}

HeadTrees == { Tree(a, b, md, sib) :
                 a \in ContentsA, b \in ContentsB,
                 md \in {NoFile, Readme}, sib \in {NoFile, Bucket} }
TagTrees  == { Tree(a, b, NoFile, NoFile) : a \in ContentsA, b \in ContentsB }
NoTree    == Tree(NoFile, NoFile, NoFile, NoFile)

V123 == <<"v", "1", ".", "2", ".", "3">>
Vx   == <<"v", "x">>

\* p is a file inside the directory tree rooted at dir
UnderDir(p, dir) ==
    StartsWith(p, IF dir # <<>> /\ dir[Len(dir)] = "/" THEN dir ELSE dir \o <<"/">>)

\* os.path.isdir
isdir(dir) == \E p \in Paths : workTree[p].st # "absent" /\ UnderDir(p, dir)

\* the files os.walk(config_directory) yields, in the order it yields them
os_walk(dir) ==
    SelectSeq(walkOrder, LAMBDA p : workTree[p].st # "absent" /\ UnderDir(p, dir))

\* read_file_content: "" for a missing, undecodable or unreadable file
read_file_content(p) == IF workTree[p].st = "text" THEN workTree[p].lines ELSE <<>>

\* get_changed_files
get_changed_files(tag) ==
    IF tag # NoTag /\ ~diffFails
    THEN SelectSeq(PathOrder,
                   LAMBDA p : headTree[p].st # "absent" /\ headTree[p] # tagTree[p])
    ELSE SelectSeq(PathOrder, LAMBDA p : headTree[p].st # "absent")

Init ==
    /\ \/ /\ argv = <<ConfigDir>>
          /\ headTree \in HeadTrees
          /\ \E dirty \in BOOLEAN :
                workTree = IF dirty THEN [headTree EXCEPT ![PathA] = NoFile]
                           ELSE headTree
          /\ walkOrder \in {<<PathA, PathB, PathMd>>, <<PathB, PathMd, PathA>>}
          /\ \/ tagEnv = NoTag /\ tagTree = NoTree /\ diffFails = FALSE
             \/ tagEnv \in {V123, Vx} /\ tagTree \in TagTrees
                /\ diffFails \in BOOLEAN
       \/ /\ argv \in {<<>>, <<OtherDir>>, <<ConfigDir, ConfigDir>>}
          /\ headTree = Tree(Web, NoFile, NoFile, NoFile)
          /\ workTree = headTree
          /\ walkOrder = <<PathA, PathB, PathMd>>
          /\ tagEnv = V123 /\ tagTree = headTree /\ diffFails = FALSE
    /\ pc = "start"
    /\ MainIdle
    /\ ParseIdle

----------------------------------------------------------------------------
(* The six change predicates                                               *)

\* `file.endswith('.tf') and file.startswith(config_directory)`
Qualifies(file, dir) == EndsWith(file, DotTf) /\ StartsWith(file, dir)

\* the .tf files of the os.walk loops (lines 138-141, 176-179, 220-223, 267-270)
WalkedFiles(dir) == SelectSeq(os_walk(dir), LAMBDA p : EndsWith(p, DotTf))

\* the files of the `for file in changed_files` loops
QualifyingFiles(cf, dir) == SelectSeq(cf, LAMBDA f : Qualifies(f, dir))

\* dict.update over the parsed files, in order: the last file parsed wins
RECURSIVE UpdateAll(_, _, _)
UpdateAll(files, i, acc) ==
    IF i > Len(files) THEN acc
    ELSE UpdateAll(files, i + 1, Update(acc, parse_resource(read_file_content(files[i]))))

ExistingResources(dir) == UpdateAll(WalkedFiles(dir), 1, EmptyMap)
NewResources(cf, dir) == UpdateAll(QualifyingFiles(cf, dir), 1, EmptyMap)

TypesOf(keys) == {k[1] : k \in keys}
NamesOf(keys, t) == {k[2] : k \in {x \in keys : x[1] = t}}

is_new_resource_type(cf, dir) ==
    LET existing_resources == TypesOf(DOMAIN ExistingResources(dir))
        new_resources == TypesOf(DOMAIN NewResources(cf, dir))
    IN  new_resources \ existing_resources # {}

is_new_resource_iteration(cf, dir) ==
    LET existing_resources == DOMAIN ExistingResources(dir)
        new_resources == DOMAIN NewResources(cf, dir)
    IN  \E t \in TypesOf(new_resources) :
            /\ t \in TypesOf(existing_resources)
            /\ NamesOf(new_resources, t) \ NamesOf(existing_resources, t) # {}

is_field_changed(cf, dir) ==
    LET existing_resources == ExistingResources(dir)
        new_resources == NewResources(cf, dir)
    IN  \E r \in DOMAIN new_resources :
            /\ r \in DOMAIN existing_resources
            /\ DOMAIN new_resources[r] # DOMAIN existing_resources[r]

is_field_value_changed(cf, dir) ==
    LET existing_resources == ExistingResources(dir)
        new_resources == NewResources(cf, dir)
    IN  \E r \in DOMAIN new_resources :
            /\ r \in DOMAIN existing_resources
            /\ \E f \in DOMAIN new_resources[r] :
                  /\ f \in DOMAIN existing_resources[r]
                  /\ new_resources[r][f] # existing_resources[r][f]

is_file_added_or_renamed_FirstOnly(cf, dir) == cf # <<>> /\ Qualifies(cf[1], dir)

is_file_added_or_renamed(cf, dir) == \E i \in DOMAIN cf : Qualifies(cf[i], dir)

\* subprocess.check_output(['git', 'show', f'HEAD:{file}']).decode() succeeds
git_show_ok(file) == headTree[file].st = "text"

\* is_resource_removed_or_commented: "True", "False", or "raise" when the
\* `git show ... .decode()` of line 354 raises before a removal is found
RECURSIVE RemovedFrom(_, _, _)
RemovedFrom(cf, dir, i) ==
    IF i > Len(cf) THEN "False"
    ELSE IF ~Qualifies(cf[i], dir) THEN RemovedFrom(cf, dir, i + 1)
    ELSE IF ~git_show_ok(cf[i]) THEN "raise"
    ELSE LET old_resources == DOMAIN parse_resource(headTree[cf[i]].lines)
             new_resources == DOMAIN parse_resource(read_file_content(cf[i]))
         IN  IF old_resources \ new_resources # {} THEN "True"
             ELSE RemovedFrom(cf, dir, i + 1)

is_resource_removed_or_commented(cf, dir) == RemovedFrom(cf, dir, 1)

----------------------------------------------------------------------------
(* main and determine_version_increment                                    *)

\* main, lines 403-412
CheckArgs ==
    /\ pc = "start"
    /\ IF Len(argv) # 1
       THEN /\ exit_code' = 1 /\ pc' = "exit"
            /\ UNCHANGED config_directory
       ELSE /\ config_directory' = argv[1]
            /\ IF ~isdir(argv[1])
               THEN exit_code' = 1 /\ pc' = "exit"
               ELSE pc' = "tag" /\ UNCHANGED exit_code
    /\ UNCHANGED <<envVars, parseVars, latest_tag, changed_files, changes, preds,
                   increment_type, version, new_version, output>>

\* determine_version_increment, lines 300-301
GetTagAndChanges ==
    /\ pc = "tag"
    /\ latest_tag' = get_latest_tag
    /\ changed_files' = get_changed_files(get_latest_tag)
    /\ pc' = "first"
    /\ UNCHANGED <<envVars, parseVars, config_directory, changes, preds,
                   increment_type, version, new_version, output, exit_code>>

NoPriorTag_NoEarlyReturn(tag) == FALSE

\* `not latest_tag`
NoPriorTag(tag) == tag = NoTag

\* determine_version_increment, lines 303-313
CheckFirstRelease ==
    /\ pc = "first"
    /\ IF NoPriorTag(latest_tag)
       THEN increment_type' = "major" /\ pc' = "version" /\ UNCHANGED changes
       ELSE changes' = NoChanges /\ pc' = "nrt" /\ UNCHANGED increment_type
    /\ UNCHANGED <<envVars, parseVars, config_directory, latest_tag, changed_files,
                   preds, version, new_version, output, exit_code>>

\* one `if is_...(changed_files, config_directory): changes[cls] = True`
Evaluate(at, name, cls, val, next) ==
    /\ pc = at
    /\ preds' = [preds EXCEPT ![name] = val]
    /\ changes' = Mark(changes, cls, val)
    /\ pc' = next
    /\ UNCHANGED <<envVars, parseVars, config_directory, latest_tag, changed_files,
                   increment_type, version, new_version, output, exit_code>>

\* lines 315-316
EvalNewResourceType ==
    Evaluate("nrt", "nrt", "major",
             is_new_resource_type(changed_files, config_directory), "nri")

\* lines 317-318
EvalNewResourceIteration ==
    Evaluate("nri", "nri", "minor",
             is_new_resource_iteration(changed_files, config_directory), "far")

\* lines 319-320
EvalFileAddedOrRenamed ==
    Evaluate("far", "far", "minor",
             is_file_added_or_renamed(changed_files, config_directory), "rrc")

\* lines 321-322; an exception raised at line 354 is caught nowhere, so the
\* interpreter prints the traceback and exits with status 1
EvalResourceRemoved ==
    LET r == is_resource_removed_or_commented(changed_files, config_directory)
    IN  IF r = "raise"
        THEN /\ pc = "rrc"
             /\ exit_code' = 1
             /\ pc' = "exit"
             /\ UNCHANGED <<envVars, parseVars, config_directory, latest_tag,
                            changed_files, changes, preds, increment_type, version,
                            new_version, output>>
        ELSE Evaluate("rrc", "rrc", "minor", r = "True", "fc")

\* lines 323-324
EvalFieldChanged ==
    Evaluate("fc", "fc", "patch",
             is_field_changed(changed_files, config_directory), "fvc")

\* lines 325-326
EvalFieldValueChanged ==
    Evaluate("fvc", "fvc", "patch",
             is_field_value_changed(changed_files, config_directory), "decide")

Next ==
    \/ CheckArgs
    \/ GetTagAndChanges
    \/ CheckFirstRelease
    \/ EvalNewResourceType
    \/ EvalNewResourceIteration
    \/ EvalFileAddedOrRenamed
    \/ EvalResourceRemoved
    \/ EvalFieldChanged
    \/ EvalFieldValueChanged
    \/ DecideIncrement
    \/ ReadVersion
    \/ ApplyIncrement
    \/ Publish

Spec == Init /\ [][Next]_vars

----------------------------------------------------------------------------
(* Properties of a run of main()                                           *)

V100 == <<"v", "1", ".", "0", ".", "0">>
V200 == <<"v", "2", ".", "0", ".", "0">>
V124 == <<"v", "1", ".", "2", ".", "4">>

ArgsValid == Len(argv) = 1 /\ isdir(argv[1])

\* determine_version_increment has returned
Returned == pc \in {"version", "apply", "publish"} \/ (pc = "exit" /\ exit_code = 0)

\* a checkout of HEAD with nothing modified, and a `git diff` that works
CleanRun == workTree = headTree /\ ~diffFails

\* the changed .tf files that are inside the configuration directory tree
ChangedInside ==
    { changed_files[i] : i \in { j \in DOMAIN changed_files :
          EndsWith(changed_files[j], DotTf)
          /\ UnderDir(changed_files[j], config_directory) } }

\* the changed paths the code's own test accepts
ChangedQualifying ==
    { changed_files[i] : i \in { j \in DOMAIN changed_files :
          EndsWith(changed_files[j], DotTf)
          /\ StartsWith(changed_files[j], config_directory) } }

\* resource keys of one file of a tree
KeysIn(tree, p) == IF tree[p].st = "text" THEN DOMAIN parse_resource(tree[p].lines) ELSE {}

\* resource types declared in the configuration at the latest tag
TypesAtTag ==
    UNION { TypesOf(KeysIn(tagTree, p)) :
              p \in {q \in Paths : EndsWith(q, DotTf) /\ UnderDir(q, config_directory)} }

\* C1: with a prior tag, a changed .tf file under the root that declares a
\* resource type the configuration did not declare before the change makes
\* is_new_resource_type True and the increment 'major' (v1.2.3 -> v2.0.0).
C1_NewTypeIsMajor ==
    ( /\ pc = "exit" /\ exit_code = 0
      /\ tagEnv = V123
      /\ CleanRun
      /\ \E f \in ChangedInside : TypesOf(KeysIn(workTree, f)) \ TypesAtTag # {} )
    => /\ preds.nrt
       /\ increment_type = "major"
       /\ Published("version") = {V200}

\* C2: with a prior tag, when the only change is one field `tags` added to
\* the existing resource (aws_instance, web), is_field_changed is True, the
\* other five predicates are False and the increment is 'patch'
\* (v1.2.3 -> v1.2.4).
C2_FieldAddedIsPatch ==
    ( /\ pc = "exit" /\ exit_code = 0
      /\ tagEnv = V123
      /\ CleanRun
      /\ tagTree = Tree(Web, NoFile, NoFile, NoFile)
      /\ headTree = Tree(WebTags, NoFile, NoFile, NoFile) )
    => /\ preds = [NoPreds EXCEPT !.fc = TRUE]
       /\ increment_type = "patch"
       /\ Published("version") = {V124}

\* C4: when no prior tag exists the increment is 'major' whatever the tree
\* holds, the prior version is (0,0,0) and v1.0.0 is published.
C4_FirstReleaseIsMajor ==
    (tagEnv = NoTag /\ ArgsValid) =>
        /\ pc \in {"version", "apply", "publish", "exit"} => increment_type = "major"
        /\ pc = "apply" => version = <<0, 0, 0>>
        /\ pc = "exit" =>
              /\ exit_code = 0
              /\ Published("version") = {V100}
              /\ Published("NEW_VERSION") = {V100}

\* a first release was published as v1.0.0 although the predicates, had they
\* been asked, would have answered 'minor'
C4_Witness ==
    /\ pc = "exit" /\ exit_code = 0
    /\ tagEnv = NoTag
    /\ Published("version") = {V100}
    /\ ~is_new_resource_type(changed_files, config_directory)
    /\ is_file_added_or_renamed(changed_files, config_directory)

\* C5: is_resource_removed_or_commented is True exactly when some qualifying
\* changed file has a resource key that its content at the latest tag holds
\* and its current content does not.
C5_RemovedSinceTag ==
    (pc \in {"fc", "fvc", "decide"} /\ CleanRun) =>
        ( preds.rrc <=>
            \E f \in ChangedQualifying : KeysIn(tagTree, f) \ KeysIn(workTree, f) # {} )

\* C6: once the arguments are valid every recoverable condition is absorbed:
\* the run ends with a published version and exit status 0.
C6_RecoverableAbsorbed ==
    (pc = "exit" /\ ArgsValid) =>
        /\ exit_code = 0
        /\ Published("version") # {}

\* C7: only changed .tf files inside the configuration directory tree affect
\* the predicates and the increment.
C7_OnlyFilesInsideRoot ==
    ( /\ pc \in {"decide", "version"}
      /\ latest_tag # NoTag
      /\ CleanRun
      /\ ChangedInside = {} )
    => /\ preds = NoPreds
       /\ (pc = "version" => increment_type = "patch")

\* C9: with a prior tag, determine_version_increment returns 'patch' exactly
\* when no changed path ends in .tf and starts with the configuration
\* directory; when some path does, is_file_added_or_renamed is True and the
\* value returned is 'minor' or 'major', so a True is_field_changed or
\* is_field_value_changed never decides the increment.
C9_PatchIffNothingQualifies ==
    /\ (Returned /\ latest_tag # NoTag) =>
          /\ increment_type = "patch" <=> ChangedQualifying = {}
          /\ ChangedQualifying # {} => increment_type \in {"minor", "major"}
          /\ preds.fc \/ preds.fvc => increment_type # "patch"
    \* is_file_added_or_renamed has been called
    /\ (latest_tag # NoTag /\ pc \notin {"first", "nrt", "nri", "far"}
           /\ ChangedQualifying # {}) => preds.far

\* is_field_changed and is_field_value_changed were both True and the
\* increment returned was 'minor'
C9_Witness ==
    /\ pc = "version"
    /\ latest_tag # NoTag
    /\ preds.fc /\ preds.fvc
    /\ ~preds.nri /\ ~preds.rrc
    /\ increment_type = "minor"

====
